---------------------------- MODULE Spec2Model ----------------------------
(***************************************************************************)
(* State-machine model of the cart / checkout / order flow of the          *)
(* e-commerce REST backend (Express routes over Mongoose models).          *)
(*                                                                         *)
(* The document store is the only shared state: products, carts, orders.   *)
(* Every HTTP request is one action, except POST /api/orders/checkout,     *)
(* which is one action per awaited store or gateway call, so that other    *)
(* requests can run between its steps.  Money is in whole dollars; the     *)
(* modelled prices are multiples of 25, for which 8% is a whole number.    *)
(***************************************************************************)
EXTENDS Integers, Sequences, FiniteSets, TLC

\* ------------------------------------------------------------------ bounds
MaxStock == 2
MaxQty == 2
MaxOrders == 1
MaxRaceOrders == 2
MaxTime == 2

Users == {"u1", "u2"}

\* The devices from which one user sends cart requests at the same time.
Devices == {"d1", "d2"}
Products == {"p1", "p2"}
Prices == {25, 50}

\* The values Date.now() may return when an order number is generated.
Timestamps == 1..MaxTime

\* ------------------------------------------------------- program constants
TaxPercent == 8
FreeShippingOver == 50
FlatShipping == 10

OrderStatuses ==
    {"pending", "confirmed", "processing", "shipped", "delivered", "cancelled"}

\* User.role as stored; issued by the auth collaborator.
role == [u \in Users |-> IF u = "u2" THEN "admin" ELSE "customer"]

\* A query that finds no document yields null.
NoDoc == [null |-> TRUE]

\* The paths the order schema declares: a path outside it reads as undefined
\* on a hydrated document.
OrderSchemaPaths ==
    {"orderNumber", "user", "items", "shippingAddress", "paymentMethod",
     "paymentStatus", "orderStatus", "subtotal", "shippingCost", "tax",
     "total", "notes", "trackingNumber", "shippedAt", "deliveredAt"}

VARIABLES
    products,   \* Product collection: id -> document or NoDoc
    carts,      \* Cart collection: user -> document or NoDoc (user is unique)
    orders,     \* Order collection, in insertion order
    co,         \* per user: the checkout request in flight (its local variables)
    resp,       \* the response a handler has just sent, until the client has it
    rq,         \* per device: the cart request in flight (its local variables)
    cartCount   \* Cart collection: user -> number of cart documents stored

vars == <<products, carts, orders, co, resp, rq, cartCount>>

\* ----------------------------------------------------------- pure helpers
RECURSIVE SumQuantity(_)
\* items.reduce((total, item) => total + item.quantity, 0)
SumQuantity(items) ==
    IF items = <<>> THEN 0
    ELSE Head(items).quantity + SumQuantity(Tail(items))

RECURSIVE SumPrice(_)
\* items.reduce((total, item) => total + item.price * item.quantity, 0)
SumPrice(items) ==
    IF items = <<>> THEN 0
    ELSE Head(items).price * Head(items).quantity + SumPrice(Tail(items))

\* items.find(item => item.product.toString() === productId.toString()):
\* the index of the first such line, 0 when there is none.
FindItem(items, productId) ==
    IF \E i \in 1..Len(items) : items[i].product = productId
    THEN CHOOSE i \in 1..Len(items) :
            /\ items[i].product = productId
            /\ \A j \in 1..(i - 1) : items[j].product # productId
    ELSE 0

\* items.filter(item => item.product.toString() !== productId.toString())
RECURSIVE FilterOut(_, _)
FilterOut(items, productId) ==
    IF items = <<>> THEN <<>>
    ELSE IF Head(items).product = productId
         THEN FilterOut(Tail(items), productId)
         ELSE <<Head(items)>> \o FilterOut(Tail(items), productId)

Response(op, code, message, a, b) ==
    [op |-> op, code |-> code, message |-> message, a |-> a, b |-> b]

\* --------------------------------------------------------------- Product
isInStock(product, quantity) ==
    product.stock >= quantity /\ product.isActive

isAvailable(product) ==
    product.stock > 0 /\ product.isActive

\* ------------------------------------------------------------------ Cart
NewCart(u) == [user |-> u, items |-> <<>>, totalItems |-> 0, totalPrice |-> 0]

\* Faulty variant: the hook recomputes the item count and keeps the stored price total.
CartPreSave_KeepsTotalPrice(cart) ==
    [cart EXCEPT !.totalItems = SumQuantity(cart.items)]

\* cartSchema.pre("save"): both totals are recomputed from the lines.
CartPreSave(cart) ==
    [cart EXCEPT !.totalItems = SumQuantity(cart.items),
                 !.totalPrice = SumPrice(cart.items)]

\* The outcome of a cart method: the document it saved, or the error thrown
\* (in which case nothing was saved and doc is the document as loaded).
Saved(cart) == [error |-> "", doc |-> CartPreSave(cart)]
Thrown(cart, message) == [error |-> message, doc |-> cart]

\* cartItemSchema: quantity has min 1 and price min 0.
ValidCart(cart) ==
    \A i \in 1..Len(cart.items) :
        cart.items[i].quantity >= 1 /\ cart.items[i].price >= 0

\* Faulty variant: the document is saved without validation.
Save_NoValidation(cart, changed) == Saved(changed)

\* this.save() on the changed document: validation runs first, and a
\* document that fails it is not stored (cart is the document as loaded).
Save(cart, changed) ==
    IF ValidCart(changed) THEN Saved(changed)
    ELSE Thrown(cart, "Cart validation failed")

\* Faulty variant: the quantity is merged and saved before the second stock
\* check throws.
addItem_SavesBeforeCheck(cart, productId, quantity) ==
    LET product == products[productId] IN
    IF product = NoDoc THEN Thrown(cart, "Product not found")
    ELSE IF ~isInStock(product, quantity)
    THEN Thrown(cart, "Insufficient stock")
    ELSE LET i == FindItem(cart.items, productId) IN
         IF i # 0
         THEN LET merged == Save(cart, [cart EXCEPT
                                           !.items[i].quantity = @ + quantity])
              IN IF ~isInStock(product, cart.items[i].quantity + quantity)
                 THEN [error |-> "Insufficient stock", doc |-> merged.doc]
                 ELSE merged
         ELSE Save(cart, [cart EXCEPT !.items =
                                   Append(@, [product |-> productId,
                                              quantity |-> quantity,
                                              price |-> product.price])])

\* Faulty variant: merging into an existing line also refreshes its price.
addItem_RefreshesPrice(cart, productId, quantity) ==
    LET product == products[productId] IN
    IF product = NoDoc THEN Thrown(cart, "Product not found")
    ELSE IF ~isInStock(product, quantity)
    THEN Thrown(cart, "Insufficient stock")
    ELSE LET i == FindItem(cart.items, productId) IN
         IF i # 0
         THEN IF ~isInStock(product, cart.items[i].quantity + quantity)
              THEN Thrown(cart, "Insufficient stock")
              ELSE Save(cart, [cart EXCEPT !.items[i].quantity = @ + quantity,
                                                 !.items[i].price = product.price])
         ELSE Save(cart, [cart EXCEPT !.items =
                                   Append(@, [product |-> productId,
                                              quantity |-> quantity,
                                              price |-> product.price])])

\* Faulty variant: an existing line is merged without the second stock check.
addItem_NoMergeCheck(cart, productId, quantity) ==
    LET product == products[productId] IN
    IF product = NoDoc THEN Thrown(cart, "Product not found")
    ELSE IF ~isInStock(product, quantity)
    THEN Thrown(cart, "Insufficient stock")
    ELSE LET i == FindItem(cart.items, productId) IN
         IF i # 0
         THEN Save(cart, [cart EXCEPT !.items[i].quantity = @ + quantity])
         ELSE Save(cart, [cart EXCEPT !.items =
                                   Append(@, [product |-> productId,
                                              quantity |-> quantity,
                                              price |-> product.price])])

addItem(cart, productId, quantity) ==
    LET product == products[productId] IN
    IF product = NoDoc THEN Thrown(cart, "Product not found")
    ELSE IF ~isInStock(product, quantity)
    THEN Thrown(cart, "Insufficient stock")
    ELSE LET i == FindItem(cart.items, productId) IN
         IF i # 0
         THEN IF ~isInStock(product, cart.items[i].quantity + quantity)
              THEN Thrown(cart, "Insufficient stock")
              ELSE Save(cart, [cart EXCEPT !.items[i].quantity = @ + quantity])
         ELSE Save(cart, [cart EXCEPT !.items =
                                   Append(@, [product |-> productId,
                                              quantity |-> quantity,
                                              price |-> product.price])])

removeItem(cart, productId) ==
    Save(cart, [cart EXCEPT !.items = FilterOut(@, productId)])

\* Faulty variant: the stock check comes before the test for a removal.
updateItemQuantity_StockCheckFirst(cart, productId, quantity) ==
    LET product == products[productId] IN
    IF product = NoDoc THEN Thrown(cart, "Product not found")
    ELSE IF ~isInStock(product, quantity)
    THEN Thrown(cart, "Insufficient stock")
    ELSE IF quantity <= 0 THEN removeItem(cart, productId)
    ELSE LET i == FindItem(cart.items, productId) IN
         IF i # 0
         THEN Save(cart, [cart EXCEPT !.items[i].quantity = quantity,
                                            !.items[i].price = product.price])
         ELSE Thrown(cart, "Item not found in cart")

\* Faulty variant: the line keeps the price it was stored with.
updateItemQuantity_KeepsPrice(cart, productId, quantity) ==
    LET product == products[productId] IN
    IF product = NoDoc THEN Thrown(cart, "Product not found")
    ELSE IF quantity <= 0 THEN removeItem(cart, productId)
    ELSE IF ~isInStock(product, quantity)
    THEN Thrown(cart, "Insufficient stock")
    ELSE LET i == FindItem(cart.items, productId) IN
         IF i # 0
         THEN Save(cart, [cart EXCEPT !.items[i].quantity = quantity])
         ELSE Thrown(cart, "Item not found in cart")

updateItemQuantity(cart, productId, quantity) ==
    LET product == products[productId] IN
    IF product = NoDoc THEN Thrown(cart, "Product not found")
    ELSE IF quantity <= 0 THEN removeItem(cart, productId)
    ELSE IF ~isInStock(product, quantity)
    THEN Thrown(cart, "Insufficient stock")
    ELSE LET i == FindItem(cart.items, productId) IN
         IF i # 0
         THEN Save(cart, [cart EXCEPT !.items[i].quantity = quantity,
                                            !.items[i].price = product.price])
         ELSE Thrown(cart, "Item not found in cart")

clearCart(cart) ==
    Save(cart, [cart EXCEPT !.items = <<>>])

isEmpty(cart) == Len(cart.items) = 0

\* The lines of a stored cart, none when the user has no cart.
LinesOf(cart) == IF cart = NoDoc THEN <<>> ELSE cart.items

\* ------------------------------------------------ save() of a loaded cart
\* How save() writes the lines of a loaded document whose items went from
\* old to new: not at all, by $push of the appended line, by $set on the
\* fields of lines in place, or by $set of the whole array.
ItemsWrite(old, new) ==
    IF new = old THEN "none"
    ELSE IF Len(new) = Len(old) + 1 /\ SubSeq(new, 1, Len(old)) = old
    THEN "push"
    ELSE IF /\ Len(new) = Len(old)
            /\ \A i \in 1..Len(old) : new[i].product = old[i].product
    THEN "set"
    ELSE "assign"

\* A write that changes array positions increments the document's version
\* (__v).  A write by position, or of the whole array, is sent with the
\* version the document was loaded with and matches no document once the
\* version has moved: save() then throws a VersionError.
IncrementsVersion(kind) == kind \in {"push", "assign"}
ChecksVersion(kind) == kind \in {"set", "assign"}

\* save() of an existing document sends its modified paths only.  stored is
\* the document in the store, loaded the document as the request loaded it,
\* changed the loaded document after the method and the pre-save hook.
ApplyDelta(stored, loaded, changed) ==
    LET kind == ItemsWrite(loaded.items, changed.items)
        SetLine(i) ==
            [stored.items[i] EXCEPT
                !.quantity =
                    IF changed.items[i].quantity # loaded.items[i].quantity
                    THEN changed.items[i].quantity ELSE @,
                !.price =
                    IF changed.items[i].price # loaded.items[i].price
                    THEN changed.items[i].price ELSE @]
        items ==
            CASE kind = "none" -> stored.items
              [] kind = "push" ->
                    Append(stored.items, changed.items[Len(changed.items)])
              [] kind = "set" ->
                    [i \in 1..Len(stored.items) |->
                        IF i <= Len(loaded.items) THEN SetLine(i)
                        ELSE stored.items[i]]
              [] OTHER -> changed.items
    IN [stored EXCEPT
          !.items = items,
          !.totalItems = IF changed.totalItems # loaded.totalItems
                         THEN changed.totalItems ELSE @,
          !.totalPrice = IF changed.totalPrice # loaded.totalPrice
                         THEN changed.totalPrice ELSE @]

\* ----------------------------------------------------------------- Init
Idle == [pc |-> "idle"]

NoResponse == Response("none", 0, "", "", "")

Init ==
    /\ products = [p \in Products |-> NoDoc]
    /\ carts = [u \in Users |-> NoDoc]
    /\ orders = <<>>
    /\ co = [u \in Users |-> Idle]
    /\ resp = NoResponse
    /\ rq = [d \in Devices |-> Idle]
    /\ cartCount = [u \in Users |-> 0]


\* The requests in flight that loaded user u's cart, other than the one of
\* device self: once a save has moved the cart's version they hold a stale one.
StaleCheckouts(u, moved) ==
    IF moved /\ co[u].pc # "idle" THEN [co EXCEPT ![u].stale = TRUE] ELSE co

StaleRequests(u, moved, self) ==
    [d \in Devices |->
        IF moved /\ d # self /\ rq[d].pc # "idle" /\ rq[d].user = u
        THEN [rq[d] EXCEPT !.stale = TRUE]
        ELSE rq[d]]

\* The effect, on the requests in flight, of a handler that loads user u's
\* cart and saves it within one step.
Bumps(u) ==
    LET moved == /\ carts[u] # NoDoc
                 /\ IncrementsVersion(ItemsWrite(carts[u].items, carts'[u].items))
    IN /\ co' = StaleCheckouts(u, moved)
       /\ rq' = StaleRequests(u, moved, "")

\* The number of cart documents of user u after a handler that may have
\* inserted one.
Counted(u) ==
    cartCount' = IF carts[u] = NoDoc /\ carts'[u] # NoDoc
                 THEN [cartCount EXCEPT ![u] = @ + 1]
                 ELSE cartCount

\* ------------------------------------------------- routes: /api/products
\* GET /api/products: the listing filters on isActive (the ids of the
\* products it returns, without paging or further filters).
ListProducts ==
    {p \in Products : products[p] # NoDoc /\ products[p].isActive}

\* GET /api/products/:id: 404, or the product with its isAvailable virtual.
GetProductById(p) ==
    IF products[p] = NoDoc
    THEN [code |-> 404, product |-> NoDoc]
    ELSE [code |-> 200,
          product |-> [name |-> products[p].name,
                       price |-> products[p].price,
                       stock |-> products[p].stock,
                       isActive |-> products[p].isActive,
                       createdBy |-> products[p].createdBy,
                       isAvailable |-> isAvailable(products[p])]]

\* POST /api/products: any authenticated user creates a product.
CreateProduct(u, p, price, stock) ==
    /\ UNCHANGED <<rq, cartCount>>
    /\ products[p] = NoDoc
    /\ products' = [products EXCEPT ![p] =
                      [name |-> p, price |-> price, stock |-> stock,
                       isActive |-> TRUE, createdBy |-> u]]
    /\ resp' = Response("product.create", 201, "Product created successfully", p, "")
    /\ UNCHANGED <<carts, orders, co>>

\* The ownership test of PATCH and DELETE /api/products/:id.
CanModifyProduct(u, product) ==
    role[u] = "admin" \/ product.createdBy = u

\* The names a PATCH may give product p: the name it was created with and,
\* where products are renamed, one other name.
ProductNames(p, rename) == IF rename THEN {p, "renamed"} ELSE {p}

\* Faulty variant: the update also rewrites the stored order lines of the product.
UpdateProduct_RewritesOrderLines(u, p, price, stock, name) ==
    /\ UNCHANGED <<rq, cartCount>>
    /\ UNCHANGED <<carts, co>>
    /\ IF products[p] = NoDoc
       THEN /\ resp' = Response("product.update", 404, "Product not found", p, "")
            /\ UNCHANGED <<products, orders>>
       ELSE IF ~CanModifyProduct(u, products[p])
       THEN /\ resp' = Response("product.update", 403,
                                "Not authorized to update this product", p, "")
            /\ UNCHANGED <<products, orders>>
       ELSE /\ products' = [products EXCEPT
                              ![p].price = price, ![p].stock = stock, ![p].name = name]
            /\ orders' = [i \in 1..Len(orders) |->
                             [orders[i] EXCEPT !.items =
                                 [k \in 1..Len(orders[i].items) |->
                                     IF orders[i].items[k].product = p
                                     THEN [orders[i].items[k] EXCEPT
                                             !.price = price, !.name = name]
                                     ELSE orders[i].items[k]]]]
            /\ resp' = Response("product.update", 200,
                                "Product updated successfully", p, "")

\* PATCH /api/products/:id: the body sets price, stock and/or name (a value
\* equal to the stored one stands for a field the body leaves out).
UpdateProduct(u, p, price, stock, name) ==
    /\ UNCHANGED <<rq, cartCount>>
    /\ UNCHANGED <<carts, orders, co>>
    /\ IF products[p] = NoDoc
       THEN /\ resp' = Response("product.update", 404, "Product not found", p, "")
            /\ UNCHANGED products
       ELSE IF ~CanModifyProduct(u, products[p])
       THEN /\ resp' = Response("product.update", 403,
                                "Not authorized to update this product", p, "")
            /\ UNCHANGED products
       ELSE /\ products' = [products EXCEPT
                              ![p].price = price, ![p].stock = stock, ![p].name = name]
            /\ resp' = Response("product.update", 200,
                                "Product updated successfully", p, "")

\* Faulty variant: the delete also takes the product out of stock.
DeleteProduct_ZeroesStock(u, p) ==
    /\ UNCHANGED <<rq, cartCount>>
    /\ UNCHANGED <<carts, orders, co>>
    /\ IF products[p] = NoDoc
       THEN /\ resp' = Response("product.delete", 404, "Product not found", p, "")
            /\ UNCHANGED products
       ELSE IF ~CanModifyProduct(u, products[p])
       THEN /\ resp' = Response("product.delete", 403,
                                "Not authorized to delete this product", p, "")
            /\ UNCHANGED products
       ELSE /\ products' = [products EXCEPT ![p].isActive = FALSE, ![p].stock = 0]
            /\ resp' = Response("product.delete", 200,
                                "Product deleted successfully", p, "")

\* DELETE /api/products/:id: soft delete.
DeleteProduct(u, p) ==
    /\ UNCHANGED <<rq, cartCount>>
    /\ UNCHANGED <<carts, orders, co>>
    /\ IF products[p] = NoDoc
       THEN /\ resp' = Response("product.delete", 404, "Product not found", p, "")
            /\ UNCHANGED products
       ELSE IF ~CanModifyProduct(u, products[p])
       THEN /\ resp' = Response("product.delete", 403,
                                "Not authorized to delete this product", p, "")
            /\ UNCHANGED products
       ELSE /\ products' = [products EXCEPT ![p].isActive = FALSE]
            /\ resp' = Response("product.delete", 200,
                                "Product deleted successfully", p, "")

\* ----------------------------------------------------- routes: /api/cart
\* GET /api/cart: creates the empty cart when the user has none.
GetCart(u) ==
    /\ carts' = IF carts[u] = NoDoc
                THEN [carts EXCEPT ![u] = CartPreSave(NewCart(u))]
                ELSE carts
    /\ resp' = Response("cart.get", 200, "", "", "")
    /\ UNCHANGED <<products, orders, co, rq>>
    /\ Counted(u)

\* POST /api/cart/add
AddToCart(u, p, quantity) ==
    /\ UNCHANGED <<products, orders>>
    /\ IF products[p] = NoDoc
       THEN /\ resp' = Response("cart.add", 404, "Product not found", p, "")
            /\ UNCHANGED carts
       ELSE IF ~products[p].isActive
       THEN /\ resp' = Response("cart.add", 400, "Product is not available", p, "")
            /\ UNCHANGED carts
       ELSE IF ~isInStock(products[p], quantity)
       THEN /\ resp' = Response("cart.add", 400, "Insufficient stock", p, "")
            /\ UNCHANGED carts
       ELSE LET cart == IF carts[u] = NoDoc THEN NewCart(u) ELSE carts[u]
                r == addItem(cart, p, quantity)
            IN IF r.error = ""
               THEN /\ carts' = [carts EXCEPT ![u] = r.doc]
                    /\ resp' = Response("cart.add", 200,
                                        "Item added to cart successfully", p, "")
               ELSE /\ UNCHANGED carts
                    /\ resp' = IF r.error = "Insufficient stock"
                               THEN Response("cart.add", 400, r.error, p, "")
                               ELSE Response("cart.add", 500, "Server error", p, "")
    /\ Counted(u)
    /\ Bumps(u)

\* PATCH /api/cart/update/:productId (the body's quantity is at least 1)
UpdateCartItem(u, p, quantity) ==
    /\ UNCHANGED <<products, orders, cartCount>>
    /\ IF carts[u] = NoDoc
       THEN /\ resp' = Response("cart.update", 404, "Cart not found", p, "")
            /\ UNCHANGED carts
       ELSE LET r == updateItemQuantity(carts[u], p, quantity)
            IN IF r.error = ""
               THEN /\ carts' = [carts EXCEPT ![u] = r.doc]
                    /\ resp' = Response("cart.update", 200,
                                        "Cart updated successfully", p, "")
               ELSE /\ UNCHANGED carts
                    /\ resp' = IF r.error \in {"Insufficient stock", "Product not found"}
                               THEN Response("cart.update", 400, r.error, p, "")
                               ELSE Response("cart.update", 500, "Server error", p, "")
    /\ Bumps(u)

\* DELETE /api/cart/remove/:productId
RemoveFromCart(u, p) ==
    /\ UNCHANGED <<products, orders, cartCount>>
    /\ IF carts[u] = NoDoc
       THEN /\ resp' = Response("cart.remove", 404, "Cart not found", p, "")
            /\ UNCHANGED carts
       ELSE /\ carts' = [carts EXCEPT ![u] = removeItem(carts[u], p).doc]
            /\ resp' = Response("cart.remove", 200,
                                "Item removed from cart successfully", p, "")
    /\ Bumps(u)

\* DELETE /api/cart/clear
ClearCart(u) ==
    /\ UNCHANGED <<products, orders, cartCount>>
    /\ IF carts[u] = NoDoc
       THEN /\ resp' = Response("cart.clear", 404, "Cart not found", "", "")
            /\ UNCHANGED carts
       ELSE /\ carts' = [carts EXCEPT ![u] = clearCart(carts[u]).doc]
            /\ resp' = Response("cart.clear", 200, "Cart cleared successfully", "", "")
    /\ Bumps(u)


\* ---------------------------- routes: /api/cart, one step per store call
\* The cart handlers again, with their store calls apart: a first step up
\* to the query that loads the user's cart, a second step with the method
\* call and its save.  Requests of other devices run between the two.
\* rq[d] holds the local variables of the request device d has in flight:
\* cart is the document as loaded (a new, unsaved one when isNew).
Loaded(u, op, productId, quantity, cart, isNew) ==
    [pc |-> "loaded", user |-> u, op |-> op,
     productId |-> productId, quantity |-> quantity,
     cart |-> cart, isNew |-> isNew, stale |-> FALSE]

\* Faulty variant: the store has no unique index on the cart's user.
SaveLoaded_NoUniqueIndex(d, r) ==
    LET u == rq[d].user
        loaded == rq[d].cart
        kind == ItemsWrite(loaded.items, r.doc.items)
    IN IF r.error # ""
       THEN [error |-> r.error, doc |-> carts[u],
             inserted |-> FALSE, moved |-> FALSE]
       ELSE IF rq[d].isNew
       THEN [error |-> "",
             doc |-> IF carts[u] # NoDoc THEN carts[u] ELSE r.doc,
             inserted |-> TRUE, moved |-> FALSE]
       ELSE IF ChecksVersion(kind) /\ rq[d].stale
       THEN [error |-> "VersionError", doc |-> carts[u],
             inserted |-> FALSE, moved |-> FALSE]
       ELSE [error |-> "", doc |-> ApplyDelta(carts[u], loaded, r.doc),
             inserted |-> FALSE, moved |-> IncrementsVersion(kind)]

\* What the save of device d's request does to the store, r being the
\* outcome of the cart method on the loaded document.  A new document is
\* inserted, unless the unique index on user refuses it; a loaded one is
\* updated by its modified paths, unless its version is stale.  doc is the
\* user's stored cart afterwards.
SaveLoaded(d, r) ==
    LET u == rq[d].user
        loaded == rq[d].cart
        kind == ItemsWrite(loaded.items, r.doc.items)
    IN IF r.error # ""
       THEN [error |-> r.error, doc |-> carts[u],
             inserted |-> FALSE, moved |-> FALSE]
       ELSE IF rq[d].isNew
       THEN IF carts[u] # NoDoc
            THEN [error |-> "E11000 duplicate key error", doc |-> carts[u],
                  inserted |-> FALSE, moved |-> FALSE]
            ELSE [error |-> "", doc |-> r.doc,
                  inserted |-> TRUE, moved |-> FALSE]
       ELSE IF ChecksVersion(kind) /\ rq[d].stale
       THEN [error |-> "VersionError", doc |-> carts[u],
             inserted |-> FALSE, moved |-> FALSE]
       ELSE [error |-> "", doc |-> ApplyDelta(carts[u], loaded, r.doc),
             inserted |-> FALSE, moved |-> IncrementsVersion(kind)]

\* The end of device d's request: the store as the save left it, and the
\* response.
Finish(d, o, response) ==
    LET u == rq[d].user
    IN /\ carts' = [carts EXCEPT ![u] = o.doc]
       /\ cartCount' = IF o.inserted
                       THEN [cartCount EXCEPT ![u] = @ + 1]
                       ELSE cartCount
       /\ co' = StaleCheckouts(u, o.moved)
       /\ rq' = [StaleRequests(u, o.moved, d) EXCEPT ![d] = Idle]
       /\ resp' = response
       /\ UNCHANGED <<products, orders>>

\* GET /api/cart
GetCartFind(d, u) ==
    /\ rq[d].pc = "idle"
    /\ UNCHANGED <<products, carts, orders, co, cartCount>>
    /\ IF carts[u] # NoDoc
       THEN /\ resp' = Response("cart.get", 200, "", "", "")
            /\ UNCHANGED rq
       ELSE /\ rq' = [rq EXCEPT ![d] = Loaded(u, "get", "", 0, NewCart(u), TRUE)]
            /\ UNCHANGED resp

GetCartSave(d) ==
    /\ rq[d].pc = "loaded" /\ rq[d].op = "get"
    /\ LET o == SaveLoaded(d, Save(rq[d].cart, rq[d].cart))
       IN Finish(d, o, IF o.error = ""
                       THEN Response("cart.get", 200, "", "", "")
                       ELSE Response("cart.get", 500, "Server error", "", ""))

\* POST /api/cart/add
AddToCartFind(d, u, p, quantity) ==
    /\ rq[d].pc = "idle"
    /\ UNCHANGED <<products, carts, orders, co, cartCount>>
    /\ IF products[p] = NoDoc
       THEN /\ resp' = Response("cart.add", 404, "Product not found", p, "")
            /\ UNCHANGED rq
       ELSE IF ~products[p].isActive
       THEN /\ resp' = Response("cart.add", 400, "Product is not available", p, "")
            /\ UNCHANGED rq
       ELSE IF ~isInStock(products[p], quantity)
       THEN /\ resp' = Response("cart.add", 400, "Insufficient stock", p, "")
            /\ UNCHANGED rq
       ELSE /\ rq' = [rq EXCEPT ![d] =
                        Loaded(u, "add", p, quantity,
                               IF carts[u] = NoDoc THEN NewCart(u) ELSE carts[u],
                               carts[u] = NoDoc)]
            /\ UNCHANGED resp

AddToCartSave(d) ==
    /\ rq[d].pc = "loaded" /\ rq[d].op = "add"
    /\ LET p == rq[d].productId
           o == SaveLoaded(d, addItem(rq[d].cart, p, rq[d].quantity))
       IN Finish(d, o, IF o.error = ""
                       THEN Response("cart.add", 200,
                                     "Item added to cart successfully", p, "")
                       ELSE IF o.error = "Insufficient stock"
                       THEN Response("cart.add", 400, o.error, p, "")
                       ELSE Response("cart.add", 500, "Server error", p, ""))

\* PATCH /api/cart/update/:productId
UpdateCartItemFind(d, u, p, quantity) ==
    /\ rq[d].pc = "idle"
    /\ UNCHANGED <<products, carts, orders, co, cartCount>>
    /\ IF carts[u] = NoDoc
       THEN /\ resp' = Response("cart.update", 404, "Cart not found", p, "")
            /\ UNCHANGED rq
       ELSE /\ rq' = [rq EXCEPT ![d] =
                        Loaded(u, "update", p, quantity, carts[u], FALSE)]
            /\ UNCHANGED resp

UpdateCartItemSave(d) ==
    /\ rq[d].pc = "loaded" /\ rq[d].op = "update"
    /\ LET p == rq[d].productId
           o == SaveLoaded(d, updateItemQuantity(rq[d].cart, p, rq[d].quantity))
       IN Finish(d, o, IF o.error = ""
                       THEN Response("cart.update", 200,
                                     "Cart updated successfully", p, "")
                       ELSE IF o.error \in {"Insufficient stock", "Product not found"}
                       THEN Response("cart.update", 400, o.error, p, "")
                       ELSE Response("cart.update", 500, "Server error", p, ""))

\* DELETE /api/cart/remove/:productId
RemoveFromCartFind(d, u, p) ==
    /\ rq[d].pc = "idle"
    /\ UNCHANGED <<products, carts, orders, co, cartCount>>
    /\ IF carts[u] = NoDoc
       THEN /\ resp' = Response("cart.remove", 404, "Cart not found", p, "")
            /\ UNCHANGED rq
       ELSE /\ rq' = [rq EXCEPT ![d] =
                        Loaded(u, "remove", p, 0, carts[u], FALSE)]
            /\ UNCHANGED resp

RemoveFromCartSave(d) ==
    /\ rq[d].pc = "loaded" /\ rq[d].op = "remove"
    /\ LET p == rq[d].productId
           o == SaveLoaded(d, removeItem(rq[d].cart, p))
       IN Finish(d, o, IF o.error = ""
                       THEN Response("cart.remove", 200,
                                     "Item removed from cart successfully", p, "")
                       ELSE Response("cart.remove", 500, "Server error", p, ""))

\* DELETE /api/cart/clear
ClearCartFind(d, u) ==
    /\ rq[d].pc = "idle"
    /\ UNCHANGED <<products, carts, orders, co, cartCount>>
    /\ IF carts[u] = NoDoc
       THEN /\ resp' = Response("cart.clear", 404, "Cart not found", "", "")
            /\ UNCHANGED rq
       ELSE /\ rq' = [rq EXCEPT ![d] =
                        Loaded(u, "clear", "", 0, carts[u], FALSE)]
            /\ UNCHANGED resp

ClearCartSave(d) ==
    /\ rq[d].pc = "loaded" /\ rq[d].op = "clear"
    /\ LET o == SaveLoaded(d, clearCart(rq[d].cart))
       IN Finish(d, o, IF o.error = ""
                       THEN Response("cart.clear", 200,
                                     "Cart cleared successfully", "", "")
                       ELSE Response("cart.clear", 500, "Server error", "", ""))

\* ------------------------------------------- cart methods, called directly
\* A caller other than the routes (a test, a script) calls a method on the
\* user's stored cart document.  The response is what the call returned:
\* message is the error thrown, "" when the call resolved; r.doc is the
\* document as the store holds it after the call.
Returned(op, r, productId, kind) == Response(op, 0, r.error, productId, kind)

\* The quantities a direct caller passes: also 0 and a negative one.
CallQuantities == (-1)..MaxQty

CallAddItem(u, p, quantity) ==
    /\ carts[u] # NoDoc
    /\ UNCHANGED <<products, orders, cartCount>>
    /\ LET r == addItem(carts[u], p, quantity)
       IN /\ carts' = [carts EXCEPT ![u] = r.doc]
          /\ resp' = Returned("addItem", r, p, "add")
    /\ Bumps(u)

CallUpdateItemQuantity(u, p, quantity) ==
    /\ carts[u] # NoDoc
    /\ UNCHANGED <<products, orders, cartCount>>
    /\ LET r == updateItemQuantity(carts[u], p, quantity)
       IN /\ carts' = [carts EXCEPT ![u] = r.doc]
          /\ resp' = Returned("updateItemQuantity", r, p,
                              IF quantity <= 0 THEN "remove" ELSE "set")
    /\ Bumps(u)

CallRemoveItem(u, p) ==
    /\ carts[u] # NoDoc
    /\ UNCHANGED <<products, orders, cartCount>>
    /\ LET r == removeItem(carts[u], p)
       IN /\ carts' = [carts EXCEPT ![u] = r.doc]
          /\ resp' = Returned("removeItem", r, p, "remove")
    /\ Bumps(u)

\* ----------------------------------------------------------------- Order
\* Faulty variant: a shipped order may still be cancelled.
validTransitions_ShippedCancellable ==
    [s \in OrderStatuses |->
        CASE s = "pending" -> {"confirmed", "cancelled"}
          [] s = "confirmed" -> {"processing", "cancelled"}
          [] s = "processing" -> {"shipped", "cancelled"}
          [] s = "shipped" -> {"delivered", "cancelled"}
          [] OTHER -> {}]

\* validTransitions of orderSchema.methods.updateStatus.
validTransitions ==
    [s \in OrderStatuses |->
        CASE s = "pending" -> {"confirmed", "cancelled"}
          [] s = "confirmed" -> {"processing", "cancelled"}
          [] s = "processing" -> {"shipped", "cancelled"}
          [] s = "shipped" -> {"delivered"}
          [] OTHER -> {}]

\* The validTransitions table of PATCH /api/admin/orders/:id/status.
adminValidTransitions ==
    [s \in OrderStatuses |->
        CASE s = "pending" -> {"confirmed", "cancelled"}
          [] s = "confirmed" -> {"processing", "cancelled"}
          [] s = "processing" -> {"shipped", "cancelled"}
          [] s = "shipped" -> {"delivered"}
          [] OTHER -> {}]

\* this.subtotal * 0.08, exact on the modelled prices.
Tax(subtotal) == (subtotal * TaxPercent) \div 100

\* Faulty variant: the total leaves the shipping cost out.
calculateTotals_NoShipping(order) ==
    LET subtotal == SumPrice(order.items)
        tax == Tax(subtotal)
    IN [order EXCEPT !.subtotal = subtotal,
                     !.tax = tax,
                     !.total = subtotal + tax]

calculateTotals(order) ==
    LET subtotal == SumPrice(order.items)
        tax == Tax(subtotal)
    IN [order EXCEPT !.subtotal = subtotal,
                     !.tax = tax,
                     !.total = subtotal + order.shippingCost + tax]

\* Faulty variant: delivered is stored without deliveredAt.
updateStatus_NoDeliveredAt(order, newStatus) ==
    IF newStatus \notin validTransitions[order.orderStatus]
    THEN [error |-> "Invalid status transition", doc |-> order]
    ELSE [error |-> "",
          doc |-> [order EXCEPT
                     !.orderStatus = newStatus,
                     !.shippedAt = IF newStatus = "shipped" THEN TRUE ELSE @]]

\* orderSchema.methods.updateStatus: the document it saved, or the error.
updateStatus(order, newStatus) ==
    IF newStatus \notin validTransitions[order.orderStatus]
    THEN [error |-> "Invalid status transition", doc |-> order]
    ELSE [error |-> "",
          doc |-> [order EXCEPT
                     !.orderStatus = newStatus,
                     !.shippedAt = IF newStatus = "shipped" THEN TRUE ELSE @,
                     !.deliveredAt = IF newStatus = "delivered" THEN TRUE ELSE @]]

\* What the body's status may be: a status, or any other string.
RequestedStatuses == OrderStatuses \cup {"unknown"}

\* Order ids a request may name: the stored orders and one that does not exist.
OrderIds == 1..(MaxOrders + 1)

OrderExists(i) == i \in 1..Len(orders)

\* --------------------------------------------------- routes: /api/orders
\* Faulty variant: the order's owner may change the status as well.
UserUpdateStatus_OwnerAllowed(u, i, status) ==
    /\ UNCHANGED <<rq, cartCount>>
    /\ UNCHANGED <<products, carts, co>>
    /\ IF role[u] # "admin" /\ ~(OrderExists(i) /\ orders[i].user = u)
       THEN /\ resp' = Response("order.status", 403, "Admin access required", "", "")
            /\ UNCHANGED orders
       ELSE IF ~OrderExists(i)
       THEN /\ resp' = Response("order.status", 404, "Order not found", "", "")
            /\ UNCHANGED orders
       ELSE LET r == updateStatus(orders[i], status)
            IN IF r.error = ""
               THEN /\ orders' = [orders EXCEPT ![i] = r.doc]
                    /\ resp' = Response("order.status", 200,
                                        "Order status updated successfully",
                                        orders[i].orderStatus, status)
               ELSE /\ UNCHANGED orders
                    /\ resp' = Response("order.status", 400, r.error,
                                        orders[i].orderStatus, status)

\* PATCH /api/orders/:id/status
UserUpdateStatus(u, i, status) ==
    /\ UNCHANGED <<rq, cartCount>>
    /\ UNCHANGED <<products, carts, co>>
    /\ IF role[u] # "admin"
       THEN /\ resp' = Response("order.status", 403, "Admin access required", "", "")
            /\ UNCHANGED orders
       ELSE IF ~OrderExists(i)
       THEN /\ resp' = Response("order.status", 404, "Order not found", "", "")
            /\ UNCHANGED orders
       ELSE LET r == updateStatus(orders[i], status)
            IN IF r.error = ""
               THEN /\ orders' = [orders EXCEPT ![i] = r.doc]
                    /\ resp' = Response("order.status", 200,
                                        "Order status updated successfully",
                                        orders[i].orderStatus, status)
               ELSE /\ UNCHANGED orders
                    /\ resp' = Response("order.status", 400, r.error,
                                        orders[i].orderStatus, status)

\* ---------------------------------------------- routes: /api/admin/orders
\* PATCH /api/admin/orders/:id/status.  The handler pushes onto
\* order.statusHistory before it saves; the push throws when the schema has
\* no such path, and the catch block answers 500 with nothing saved.
AdminUpdateStatus(u, i, status) ==
    /\ UNCHANGED <<rq, cartCount>>
    /\ UNCHANGED <<products, carts, co>>
    /\ IF role[u] # "admin"
       THEN /\ resp' = Response("admin.status", 403,
                                "Access denied. Admin privileges required.", "", "")
            /\ UNCHANGED orders
       ELSE IF status \notin OrderStatuses
       THEN /\ resp' = Response("admin.status", 400, "Validation error", "", "")
            /\ UNCHANGED orders
       ELSE IF ~OrderExists(i)
       THEN /\ resp' = Response("admin.status", 404, "Order not found", "", "")
            /\ UNCHANGED orders
       ELSE IF status \notin adminValidTransitions[orders[i].orderStatus]
       THEN /\ resp' = Response("admin.status", 400, "Cannot change status",
                                orders[i].orderStatus, status)
            /\ UNCHANGED orders
       ELSE IF "statusHistory" \notin OrderSchemaPaths
       THEN /\ resp' = Response("admin.status", 500,
                                "Failed to update order status", "", "")
            /\ UNCHANGED orders
       ELSE /\ orders' = [orders EXCEPT
                            ![i].orderStatus = status,
                            ![i].statusHistory =
                                Append(@, [status |-> status, updatedBy |-> u])]
            /\ resp' = Response("admin.status", 200, "Order status updated",
                                orders[i].orderStatus, status)

\* DELETE /api/admin/orders/:id: cancels whatever the current status is.
AdminCancel(u, i) ==
    /\ UNCHANGED <<rq, cartCount>>
    /\ UNCHANGED <<products, carts, co>>
    /\ IF role[u] # "admin"
       THEN /\ resp' = Response("admin.cancel", 403,
                                "Access denied. Admin privileges required.", "", "")
            /\ UNCHANGED orders
       ELSE IF ~OrderExists(i)
       THEN /\ resp' = Response("admin.cancel", 404, "Order not found", "", "")
            /\ UNCHANGED orders
       ELSE IF "statusHistory" \notin OrderSchemaPaths
       THEN /\ resp' = Response("admin.cancel", 500, "Failed to cancel order", "", "")
            /\ UNCHANGED orders
       ELSE /\ orders' = [orders EXCEPT
                            ![i].orderStatus = "cancelled",
                            ![i].statusHistory =
                                Append(@, [status |-> "cancelled", updatedBy |-> u])]
            /\ resp' = Response("admin.cancel", 200, "Order cancelled successfully",
                                orders[i].orderStatus, "cancelled")


\* --------------------------------------------- POST /api/orders/checkout
\* populate("items.product"): the product documents of the lines, as read.
Populate(items) == [i \in 1..Len(items) |-> products[items[i].product]]

\* Faulty variant: the loop checks isActive and not the stock.
RECURSIVE ValidateItems_ActiveOnly(_, _, _)
ValidateItems_ActiveOnly(items, docs, i) ==
    IF i > Len(items) THEN NoDoc
    ELSE IF ~docs[i].isActive
    THEN Response("checkout", 400, "is no longer available", docs[i].name, "")
    ELSE ValidateItems_ActiveOnly(items, docs, i + 1)

\* The availability loop over cart.items: the response of the first check
\* that fails, in line order, or NoDoc when every line passes.
RECURSIVE ValidateItems(_, _, _)
ValidateItems(items, docs, i) ==
    IF i > Len(items) THEN NoDoc
    ELSE IF ~docs[i].isActive
    THEN Response("checkout", 400, "is no longer available", docs[i].name, "")
    ELSE IF ~isInStock(docs[i], items[i].quantity)
    THEN Response("checkout", 400, "Insufficient stock for", docs[i].name, "")
    ELSE ValidateItems(items, docs, i + 1)

\* Faulty variant: free shipping from the threshold on.
ShippingCost_FromThreshold(totalPrice) ==
    IF totalPrice >= FreeShippingOver THEN 0 ELSE FlatShipping

\* cart.totalPrice > 50 ? 0 : 10
ShippingCost(totalPrice) ==
    IF totalPrice > FreeShippingOver THEN 0 ELSE FlatShipping

\* An order document whose orderNumber is not set yet.
NoNumber == [time |-> 0, seq |-> 0]

\* new Order({...}) followed by calculateTotals(): the lines take the price
\* and name of the populated product, the shipping cost the cart's total.
NewOrder(u, cart, docs) ==
    calculateTotals(
        [orderNumber |-> NoNumber,
         user |-> u,
         items |-> [i \in 1..Len(cart.items) |->
                       [product |-> cart.items[i].product,
                        quantity |-> cart.items[i].quantity,
                        price |-> docs[i].price,
                        name |-> docs[i].name]],
         paymentStatus |-> "pending",
         orderStatus |-> "pending",
         subtotal |-> cart.totalPrice,
         shippingCost |-> ShippingCost(cart.totalPrice),
         tax |-> 0,
         total |-> 0,
         shippedAt |-> FALSE,
         deliveredAt |-> FALSE,
         statusHistory |-> <<>>])

\* validatePaymentData: amount present and positive (the payment method was
\* validated with the request body).
validatePaymentData(amount) == amount > 0

\* Orders stored or about to be stored.
OrdersInFlight ==
    Len(orders) + Cardinality({v \in Users : co[v].pc \in {"number", "create"}})

\* Step 1: load and populate the cart, validate it, build the order.  A
\* checkout that would store an order is sent only while fewer than cap
\* orders are stored or about to be.
CheckoutLoadUpTo(u, cap) ==
    /\ UNCHANGED <<rq, cartCount>>
    /\ co[u].pc = "idle"
    /\ UNCHANGED <<products, carts, orders>>
    /\ IF carts[u] = NoDoc \/ isEmpty(carts[u])
       THEN /\ resp' = Response("checkout", 400, "Cart is empty", "", "")
            /\ UNCHANGED co
       ELSE LET cart == carts[u]
                docs == Populate(cart.items)
                bad == ValidateItems(cart.items, docs, 1)
            IN IF bad # NoDoc
               THEN /\ resp' = bad
                    /\ UNCHANGED co
               ELSE /\ OrdersInFlight < cap
                    /\ co' = [co EXCEPT ![u] =
                                [pc |-> "number", cart |-> cart, docs |-> docs,
                                 order |-> NewOrder(u, cart, docs),
                                 oid |-> 0, idx |-> 0, paid |-> FALSE,
                                 stale |-> FALSE]]
                    /\ UNCHANGED resp

CheckoutLoad(u) == CheckoutLoadUpTo(u, MaxOrders)

\* Step 2: orderSchema.pre("save") on the new order: the order number is
\* made of Date.now() and of countDocuments() + 1.
CheckoutNumber(u, now) ==
    /\ UNCHANGED <<rq, cartCount>>
    /\ co[u].pc = "number"
    /\ co' = [co EXCEPT
                ![u].order.orderNumber = [time |-> now, seq |-> Len(orders) + 1],
                ![u].pc = "create"]
    /\ UNCHANGED <<products, carts, orders, resp>>

\* The unique index on orderNumber refuses a number that is stored already.
DuplicateKey(order) ==
    \E i \in 1..Len(orders) : orders[i].orderNumber = order.orderNumber

\* Faulty variant: the order is inserted without the unique index.
CheckoutCreate_NoUniqueIndex(u) ==
    /\ UNCHANGED <<rq, cartCount>>
    /\ co[u].pc = "create"
    /\ UNCHANGED <<products, carts>>
    /\ orders' = Append(orders, co[u].order)
    /\ IF validatePaymentData(co[u].order.total)
       THEN /\ co' = [co EXCEPT ![u].pc = "pay", ![u].oid = Len(orders) + 1]
            /\ UNCHANGED resp
       ELSE /\ co' = [co EXCEPT ![u] = Idle]
            /\ resp' = Response("checkout", 500, "Server error during checkout", "", "")

\* Step 3: order.save() inserts the order, unless the unique index refuses
\* it; validatePaymentData follows.
CheckoutCreate(u) ==
    /\ UNCHANGED <<rq, cartCount>>
    /\ co[u].pc = "create"
    /\ UNCHANGED <<products, carts>>
    /\ IF DuplicateKey(co[u].order)
       THEN /\ UNCHANGED orders
            /\ co' = [co EXCEPT ![u] = Idle]
            /\ resp' = Response("checkout", 500, "Server error during checkout", "", "")
       ELSE /\ orders' = Append(orders, co[u].order)
            /\ IF validatePaymentData(co[u].order.total)
               THEN /\ co' = [co EXCEPT ![u].pc = "pay", ![u].oid = Len(orders) + 1]
                    /\ UNCHANGED resp
               ELSE /\ co' = [co EXCEPT ![u] = Idle]
                    /\ resp' = Response("checkout", 500,
                                        "Server error during checkout", "", "")

\* Faulty variant: the cart is cleared whatever the payment result.
CheckoutPay_ClearsOnFailure(u, success) ==
    /\ UNCHANGED <<rq, cartCount>>
    /\ co[u].pc = "pay"
    /\ co' = [co EXCEPT
                ![u].paid = success,
                ![u].order.paymentStatus = IF success THEN "paid" ELSE "failed",
                ![u].order.orderStatus = IF success THEN "confirmed" ELSE @,
                ![u].idx = 1,
                ![u].pc = IF success THEN "reduce" ELSE "clear"]
    /\ UNCHANGED <<products, carts, orders, resp>>

\* Step 4: simulatePayment resolves, with success or with failure.
CheckoutPay(u, success) ==
    /\ UNCHANGED <<rq, cartCount>>
    /\ co[u].pc = "pay"
    /\ co' = [co EXCEPT
                ![u].paid = success,
                ![u].order.paymentStatus = IF success THEN "paid" ELSE "failed",
                ![u].order.orderStatus = IF success THEN "confirmed" ELSE @,
                ![u].idx = 1,
                ![u].pc = IF success THEN "reduce" ELSE "finish"]
    /\ UNCHANGED <<products, carts, orders, resp>>

\* Faulty variant: the stock goes down by one, whatever the quantity.
reduceStock_ByOne(product, quantity) ==
    IF product.stock >= quantity THEN product.stock - 1 ELSE -1

\* Faulty variant: the method wants more stock than the quantity.
reduceStock_StrictlyMore(product, quantity) ==
    IF product.stock > quantity THEN product.stock - quantity ELSE -1

\* productSchema.methods.reduceStock on a loaded product document: the
\* stock it saves, or -1 when it throws.
reduceStock(product, quantity) ==
    IF product.stock >= quantity THEN product.stock - quantity ELSE -1

\* reduceStock called on a product document just loaded, by a caller other
\* than the checkout; the response is what the call returned.
CallReduceStock(p, quantity) ==
    /\ products[p] # NoDoc
    /\ UNCHANGED <<carts, orders, co, rq, cartCount>>
    /\ LET stock == reduceStock(products[p], quantity)
       IN IF stock < 0
          THEN /\ resp' = Response("reduceStock", 0, "Insufficient stock", p, "")
               /\ UNCHANGED products
          ELSE /\ products' = [products EXCEPT ![p].stock = stock]
               /\ resp' = Response("reduceStock", 0, "", p, "")

\* Faulty variant: each decrement reads the product's stored stock again.
CheckoutReduce_RereadsStock(u) ==
    /\ UNCHANGED <<rq, cartCount>>
    /\ co[u].pc = "reduce"
    /\ UNCHANGED <<carts, orders>>
    /\ LET i == co[u].idx
           item == co[u].cart.items[i]
           stock == reduceStock(products[item.product], item.quantity)
       IN IF stock < 0
          THEN /\ co' = [co EXCEPT ![u] = Idle]
               /\ resp' = Response("checkout", 500,
                                   "Server error during checkout", "", "")
               /\ UNCHANGED products
          ELSE /\ products' = [products EXCEPT ![item.product].stock = stock]
               /\ co' = [co EXCEPT
                           ![u].idx = i + 1,
                           ![u].pc = IF i = Len(co[u].cart.items)
                                     THEN "clear" ELSE "reduce"]
               /\ UNCHANGED resp

\* Step 5, once per line: item.product.reduceStock(item.quantity) on the
\* line's populated document (docs[i], with the stock it was read with); its
\* save stores the document's new stock.
CheckoutReduce(u) ==
    /\ UNCHANGED <<rq, cartCount>>
    /\ co[u].pc = "reduce"
    /\ UNCHANGED <<carts, orders>>
    /\ LET i == co[u].idx
           item == co[u].cart.items[i]
           stock == reduceStock(co[u].docs[i], item.quantity)
       IN IF stock < 0
          THEN /\ co' = [co EXCEPT ![u] = Idle]
               /\ resp' = Response("checkout", 500,
                                   "Server error during checkout", "", "")
               /\ UNCHANGED products
          ELSE /\ products' = [products EXCEPT ![item.product].stock = stock]
               /\ co' = [co EXCEPT
                           ![u].idx = i + 1,
                           ![u].pc = IF i = Len(co[u].cart.items)
                                     THEN "clear" ELSE "reduce"]
               /\ UNCHANGED resp

\* Step 6: cart.clearCart() on the loaded cart document.  Its save assigns
\* the items array, so it throws a VersionError when the stored cart's
\* version has moved since the checkout loaded it; the catch block then
\* answers 500 and the order is not saved again.
CheckoutClear(u) ==
    /\ co[u].pc = "clear"
    /\ UNCHANGED <<products, orders, cartCount>>
    /\ IF co[u].stale
       THEN /\ co' = [co EXCEPT ![u] = Idle]
            /\ resp' = Response("checkout", 500,
                                "Server error during checkout", "", "")
            /\ UNCHANGED <<carts, rq>>
       ELSE /\ carts' = [carts EXCEPT ![u] =
                           ApplyDelta(carts[u], co[u].cart,
                                      clearCart(co[u].cart).doc)]
            /\ co' = [co EXCEPT ![u].pc = "finish"]
            /\ rq' = StaleRequests(u, TRUE, "")
            /\ UNCHANGED resp

\* Step 7: order.save() stores the paths the handler modified, and the
\* response is sent.
CheckoutFinish(u) ==
    /\ UNCHANGED <<rq, cartCount>>
    /\ co[u].pc = "finish"
    /\ orders' = [orders EXCEPT
                    ![co[u].oid].paymentStatus = co[u].order.paymentStatus,
                    ![co[u].oid].orderStatus =
                        IF co[u].paid THEN co[u].order.orderStatus ELSE @]
    /\ resp' = IF co[u].paid
               THEN Response("checkout", 201,
                             "Order created and payment processed successfully", "", "")
               ELSE Response("checkout", 400, "Payment failed", "", "")
    /\ co' = [co EXCEPT ![u] = Idle]
    /\ UNCHANGED <<products, carts>>

\* ------------------------------------------------------- specifications
\* The client takes the response; resp holds a response only in the state
\* right after the handler that sent it.
ResponseTaken ==
    /\ UNCHANGED <<rq, cartCount>>
    /\ resp # NoResponse
    /\ resp' = NoResponse
    /\ UNCHANGED <<products, carts, orders, co>>

\* Fewer than MaxOrders orders are placed: the shopper still fills the cart.
Shopping == Len(orders) < MaxOrders

AllIdle == \A u \in Users : co[u].pc = "idle"

\* A request is served when the last response is out and, in a sequential
\* specification, when no checkout is in flight.
Served(sequential) == resp = NoResponse /\ (sequential => AllIdle)

\* The requests of a specification's clients: U are the users who send them,
\* P the products and PR the prices they name.  With untilOrdered, products
\* are managed only while fewer than MaxOrders orders are placed; with
\* rename, updates also rename the product.
ProductRequest(sequential, untilOrdered, rename, U, P, PR) ==
    \/ \E u \in U, p \in P, price \in PR, stock \in 0..MaxStock :
          /\ Served(sequential) /\ (untilOrdered => Shopping)
          /\ CreateProduct(u, p, price, stock)
    \/ \E u \in U, p \in P, price \in PR, stock \in 0..MaxStock :
          \E name \in ProductNames(p, rename) :
              /\ Served(sequential) /\ (untilOrdered => Shopping)
              /\ UpdateProduct(u, p, price, stock, name)
    \/ \E u \in U, p \in P :
          /\ Served(sequential) /\ (untilOrdered => Shopping)
          /\ DeleteProduct(u, p)

CartRequest(sequential, U, P) ==
    \/ \E u \in U :
          Served(sequential) /\ Shopping /\ GetCart(u)
    \/ \E u \in U, p \in P, q \in 1..MaxQty :
          Served(sequential) /\ Shopping /\ AddToCart(u, p, q)
    \/ \E u \in U, p \in P, q \in 1..MaxQty :
          Served(sequential) /\ Shopping /\ UpdateCartItem(u, p, q)
    \/ \E u \in U, p \in P :
          Served(sequential) /\ Shopping /\ RemoveFromCart(u, p)
    \/ \E u \in U :
          Served(sequential) /\ Shopping /\ ClearCart(u)

StatusRequest(sequential, U) ==
    \/ \E u \in U, i \in OrderIds, s \in RequestedStatuses :
          Served(sequential) /\ UserUpdateStatus(u, i, s)
    \/ \E u \in U, i \in OrderIds, s \in RequestedStatuses :
          Served(sequential) /\ AdminUpdateStatus(u, i, s)
    \/ \E u \in U, i \in OrderIds :
          Served(sequential) /\ AdminCancel(u, i)

Checkout(sequential, U, cap) ==
    \/ \E u \in U : Served(sequential) /\ CheckoutLoadUpTo(u, cap)
    \/ \E u \in U, now \in Timestamps : resp = NoResponse /\ CheckoutNumber(u, now)
    \/ \E u \in U : resp = NoResponse /\ CheckoutCreate(u)
    \/ \E u \in U, success \in BOOLEAN : resp = NoResponse /\ CheckoutPay(u, success)
    \/ \E u \in U : resp = NoResponse /\ CheckoutReduce(u)
    \/ \E u \in U : resp = NoResponse /\ CheckoutClear(u)
    \/ \E u \in U : resp = NoResponse /\ CheckoutFinish(u)

\* Spec: one product at one price; the admin u2 manages it, u1 shops, and
\* requests interleave with the steps of the checkout in flight.
Next ==
    \/ ProductRequest(FALSE, FALSE, FALSE, {"u2"}, {"p1"}, {25})
    \/ CartRequest(FALSE, {"u1"}, {"p1"})
    \/ StatusRequest(FALSE, Users)
    \/ Checkout(FALSE, {"u1"}, MaxOrders)
    \/ ResponseTaken

Spec == Init /\ [][Next]_vars

\* SpecSeq: both products at both prices; every request, checkout included,
\* runs to completion before the next one starts.  Once MaxOrders orders are
\* placed, only order-status requests follow.
NextSeq ==
    \/ ProductRequest(TRUE, TRUE, FALSE, {"u2"}, Products, Prices)
    \/ CartRequest(TRUE, {"u1"}, Products)
    \/ StatusRequest(TRUE, {"u2"})
    \/ Checkout(TRUE, {"u1"}, MaxOrders)
    \/ ResponseTaken

SpecSeq == Init /\ [][NextSeq]_vars

\* SpecCart: the product and cart routes alone, each request atomic.
NextCart ==
    \/ ProductRequest(TRUE, FALSE, FALSE, Users, Products, Prices)
    \/ CartRequest(TRUE, {"u1"}, Products)
    \/ ResponseTaken

SpecCart == Init /\ [][NextCart]_vars

\* SpecMethods: the product and cart routes, each request atomic, and direct
\* calls of the cart methods on the shopper's cart.
NextMethods ==
    \/ ProductRequest(TRUE, FALSE, FALSE, {"u2"}, Products, Prices)
    \/ CartRequest(TRUE, {"u1"}, Products)
    \/ \E p \in Products, q \in CallQuantities :
          Served(TRUE) /\ CallAddItem("u1", p, q)
    \/ \E p \in Products, q \in CallQuantities :
          Served(TRUE) /\ CallUpdateItemQuantity("u1", p, q)
    \/ \E p \in Products :
          Served(TRUE) /\ CallRemoveItem("u1", p)
    \/ ResponseTaken

SpecMethods == Init /\ [][NextMethods]_vars

\* SpecEdits: one product, whose price, stock and name the admin keeps
\* editing after the order is placed; every request runs to completion.
NextEdits ==
    \/ ProductRequest(TRUE, FALSE, TRUE, {"u2"}, {"p1"}, Prices)
    \/ CartRequest(TRUE, {"u1"}, {"p1"})
    \/ StatusRequest(TRUE, {"u2"})
    \/ Checkout(TRUE, {"u1"}, MaxOrders)
    \/ ResponseTaken

SpecEdits == Init /\ [][NextEdits]_vars

\* SpecRace: one product; both users put it in their carts and check out,
\* and the steps of their checkouts interleave, also with direct calls of
\* reduceStock on the product.
NextRace ==
    \/ \E stock \in 0..MaxStock :
          Served(FALSE) /\ CreateProduct("u2", "p1", 25, stock)
    \/ \E u \in Users, q \in 1..MaxQty :
          Served(FALSE) /\ Shopping /\ AddToCart(u, "p1", q)
    \/ \E q \in 1..MaxQty :
          Served(FALSE) /\ CallReduceStock("p1", q)
    \/ Checkout(FALSE, Users, MaxRaceOrders)
    \/ ResponseTaken

SpecRace == Init /\ [][NextRace]_vars

\* SpecDevices: the shopper sends cart requests for one product from two
\* devices, and the steps of the two requests interleave; the admin creates
\* the product.
DeviceRequest(u, P) ==
    \/ \E d \in Devices : resp = NoResponse /\ GetCartFind(d, u)
    \/ \E d \in Devices : resp = NoResponse /\ GetCartSave(d)
    \/ \E d \in Devices, p \in P, q \in 1..MaxQty :
          resp = NoResponse /\ AddToCartFind(d, u, p, q)
    \/ \E d \in Devices : resp = NoResponse /\ AddToCartSave(d)
    \/ \E d \in Devices, p \in P, q \in 1..MaxQty :
          resp = NoResponse /\ UpdateCartItemFind(d, u, p, q)
    \/ \E d \in Devices : resp = NoResponse /\ UpdateCartItemSave(d)
    \/ \E d \in Devices, p \in P :
          resp = NoResponse /\ RemoveFromCartFind(d, u, p)
    \/ \E d \in Devices : resp = NoResponse /\ RemoveFromCartSave(d)
    \/ \E d \in Devices : resp = NoResponse /\ ClearCartFind(d, u)
    \/ \E d \in Devices : resp = NoResponse /\ ClearCartSave(d)

NextDevices ==
    \/ \E price \in Prices, stock \in 1..MaxStock :
          resp = NoResponse /\ CreateProduct("u2", "p1", price, stock)
    \/ DeviceRequest("u1", {"p1"})
    \/ ResponseTaken

SpecDevices == Init /\ [][NextDevices]_vars

\* ================================================================ claims
\* Sums over the lines of a document, by index.
RECURSIVE QuantityUpTo(_, _)
QuantityUpTo(items, n) ==
    IF n = 0 THEN 0 ELSE QuantityUpTo(items, n - 1) + items[n].quantity

RECURSIVE AmountUpTo(_, _)
AmountUpTo(items, n) ==
    IF n = 0 THEN 0
    ELSE AmountUpTo(items, n - 1) + items[n].quantity * items[n].price

\* The quantity of the line of product p in a cart document, 0 without one.
LineQuantity(cart, p) ==
    IF cart = NoDoc \/ \A i \in 1..Len(cart.items) : cart.items[i].product # p
    THEN 0
    ELSE LET i == CHOOSE k \in 1..Len(cart.items) : cart.items[k].product = p
         IN cart.items[i].quantity

\* C1: in every state, every persisted cart has totalItems equal to the sum
\* of its line quantities and totalPrice equal to the sum of quantity x price
\* over its lines; the state after each single cart mutation is such a state.
C1_CartTotals ==
    \A u \in Users :
        carts[u] # NoDoc =>
            /\ carts[u].totalItems = QuantityUpTo(carts[u].items, Len(carts[u].items))
            /\ carts[u].totalPrice = AmountUpTo(carts[u].items, Len(carts[u].items))

\* C1 witness: an update has just succeeded on a cart of two lines whose
\* quantities and prices differ.
C1_Witness ==
    /\ resp.op = "cart.update" /\ resp.code = 200
    /\ Len(carts["u1"].items) = 2
    /\ carts["u1"].items[1].quantity # carts["u1"].items[2].quantity
    /\ carts["u1"].items[1].price # carts["u1"].items[2].price
    /\ carts["u1"].totalItems = 3

\* C7: a POST /api/cart/add that succeeds was sent for a product that exists,
\* is active and has stock of at least the quantity of the cart's line for it
\* (0 without one) plus the quantity added; right after it the line's
\* quantity is at most the product's stock.
C7_AddWithinStock ==
    [][\A u \in Users, p \in Products, q \in 1..MaxQty :
          (AddToCart(u, p, q) /\ resp'.code = 200) =>
              /\ products[p] # NoDoc
              /\ products[p].isActive
              /\ products[p].stock >= LineQuantity(carts[u], p) + q
              /\ LineQuantity(carts'[u], p) <= products'[p].stock]_vars

\* C7 witness: an add has just succeeded on a line that existed before (its
\* stored price is older than the product's) and brought it to exactly the
\* product's stock.
C7_Witness ==
    /\ resp.op = "cart.add" /\ resp.code = 200
    /\ products[resp.a].stock = LineQuantity(carts["u1"], resp.a)
    /\ \E i \in 1..Len(carts["u1"].items) :
          /\ carts["u1"].items[i].product = resp.a
          /\ carts["u1"].items[i].price # products[resp.a].price


\* The edges of the order status graph.
AllowedEdges ==
    {<<"pending", "confirmed">>, <<"pending", "cancelled">>,
     <<"confirmed", "processing">>, <<"confirmed", "cancelled">>,
     <<"processing", "shipped">>, <<"processing", "cancelled">>,
     <<"shipped", "delivered">>}

\* C2: a status request by an admin, through either status endpoint, for an
\* existing order and a pair (current status, requested status) that is no
\* edge of the graph is answered 400, naming the current and the requested
\* status, and leaves the stored orders as they were.
C2_InvalidTransitionRejected ==
    [][\A u \in Users, i \in OrderIds, s \in OrderStatuses :
          ( /\ role[u] = "admin"
            /\ OrderExists(i)
            /\ <<orders[i].orderStatus, s>> \notin AllowedEdges
            /\ (UserUpdateStatus(u, i, s) \/ AdminUpdateStatus(u, i, s)) )
          => /\ resp'.code = 400
             /\ resp'.a = orders[i].orderStatus
             /\ resp'.b = s
             /\ orders' = orders]_vars

\* C2 witness: the order-status endpoint has just refused to cancel a
\* shipped order.
C2_Witness ==
    /\ resp.op = "order.status" /\ resp.code = 400
    /\ resp.a = "shipped" /\ resp.b = "cancelled"
    /\ \E i \in 1..Len(orders) : orders[i].orderStatus = "shipped"

\* C3: every change of a stored order's orderStatus, in whatever step, goes
\* along an edge of the graph (so delivered and cancelled never change).
C3_OnlyAllowedEdges ==
    [][\A i \in 1..Len(orders) :
          orders'[i].orderStatus # orders[i].orderStatus =>
              <<orders[i].orderStatus, orders'[i].orderStatus>> \in AllowedEdges]_vars

\* C10: every change of a stored order's orderStatus appends exactly one
\* entry to its statusHistory, with the new status, and keeps the entries
\* that were there.
C10_HistoryAppended ==
    [][\A i \in 1..Len(orders) :
          orders'[i].orderStatus # orders[i].orderStatus =>
              LET old == orders[i].statusHistory
                  new == orders'[i].statusHistory
              IN /\ Len(new) = Len(old) + 1
                 /\ SubSeq(new, 1, Len(old)) = old
                 /\ new[Len(new)].status = orders'[i].orderStatus]_vars


\* A checkout in flight, and one whose payment succeeded.
InFlight(c) == c.pc # "idle"
Paid(c) == InFlight(c) /\ c.paid

\* The step is one of user u's checkout: it moves the checkout to its next
\* position, or to the next line of the decrement loop.  (A cart request of
\* the same user changes co[u] too, but only its stale flag.)
CheckoutStep(u) ==
    \/ co'[u].pc # co[u].pc
    \/ co[u].pc = "reduce" /\ co'[u].idx # co[u].idx

\* C4: no step of a checkout whose payment has not succeeded changes any
\* product or cart; and when the checkout ends after a payment failure, every
\* product of the cart has the stock it was read with, the cart is the cart
\* that was loaded, and the order is stored with paymentStatus failed and
\* orderStatus pending.
C4_PaymentFailureFrame ==
    [][\A u \in Users :
          ( /\ CheckoutStep(u)
            /\ ~Paid(co[u])
            /\ ~Paid(co'[u]) )
          => /\ products' = products
             /\ carts' = carts
             /\ co[u].pc = "finish" =>
                   /\ carts'[u] = co[u].cart
                   /\ \A i \in 1..Len(co[u].cart.items) :
                         products'[co[u].cart.items[i].product] = co[u].docs[i]
                   /\ orders'[co[u].oid].paymentStatus = "failed"
                   /\ orders'[co[u].oid].orderStatus = "pending"]_vars

\* C4 witness: a checkout has just ended with a failed payment, its order is
\* stored as failed / pending and the cart still has its two lines.
C4_Witness ==
    /\ resp.op = "checkout" /\ resp.message = "Payment failed"
    /\ Len(orders) = 1
    /\ orders[1].paymentStatus = "failed" /\ orders[1].orderStatus = "pending"
    /\ Len(carts["u1"].items) = 2
    /\ carts["u1"].totalItems = 3

\* C5: when a checkout that ran alone ends after a successful payment, its
\* order is stored as paid and confirmed, the stock of each product of the
\* cart is the stock it had when the cart was loaded less the line's
\* quantity, and the user's cart exists with no lines and totals 0.
C5_PaymentSuccess ==
    [][\A u \in Users :
          (Paid(co[u]) /\ co[u].pc = "finish" /\ ~InFlight(co'[u])) =>
              /\ orders'[co[u].oid].paymentStatus = "paid"
              /\ orders'[co[u].oid].orderStatus = "confirmed"
              /\ \A i \in 1..Len(co[u].cart.items) :
                    products'[co[u].cart.items[i].product].stock =
                        co[u].docs[i].stock - co[u].cart.items[i].quantity
              /\ carts'[u] # NoDoc
              /\ carts'[u].items = <<>>
              /\ carts'[u].totalItems = 0
              /\ carts'[u].totalPrice = 0]_vars

\* C5 witness: a checkout of two lines, one of quantity 2, has just ended
\* with a successful payment.
C5_Witness ==
    /\ resp.op = "checkout" /\ resp.code = 201
    /\ Len(orders) = 1
    /\ Len(orders[1].items) = 2
    /\ orders[1].items[1].quantity = 2
    /\ orders[1].paymentStatus = "paid"
    /\ carts["u1"].items = <<>>

\* Line i of u's cart fails the availability check.
LineFails(u, i) ==
    LET item == carts[u].items[i]
        product == products[item.product]
    IN ~product.isActive \/ product.stock < item.quantity

\* The cart of u cannot be checked out.
CannotCheckOut(u) ==
    \/ carts[u] = NoDoc
    \/ carts[u].items = <<>>
    \/ \E i \in 1..Len(carts[u].items) : LineFails(u, i)

\* C6: a checkout sent while the user's cart is absent, empty or has a line
\* whose product is inactive or short of stock is answered 400, naming the
\* product of the first such line, and changes neither products, carts nor
\* orders and starts no payment; and every stored order has a line.
C6_InvalidCheckoutNoEffect ==
    /\ [](\A i \in 1..Len(orders) : Len(orders[i].items) >= 1)
    /\ [][\A u \in Users :
             (CheckoutLoad(u) /\ CannotCheckOut(u)) =>
                 /\ resp'.code = 400
                 /\ UNCHANGED <<products, carts, orders, co>>
                 /\ (carts[u] # NoDoc /\ carts[u].items # <<>>) =>
                       \E i \in 1..Len(carts[u].items) :
                           /\ LineFails(u, i)
                           /\ \A j \in 1..(i - 1) : ~LineFails(u, j)
                           /\ resp'.a = products[carts[u].items[i].product].name]_vars

\* C6 witness: a checkout has just been refused for a cart whose two lines
\* both fail the check, naming the product of the first line.
C6_Witness ==
    /\ resp.op = "checkout" /\ resp.code = 400
    /\ carts["u1"] # NoDoc
    /\ Len(carts["u1"].items) = 2
    /\ LineFails("u1", 1) /\ LineFails("u1", 2)
    /\ resp.a = products[carts["u1"].items[1].product].name
    /\ orders = <<>>

\* C8: every stored order has subtotal equal to the sum of price x quantity
\* over its lines, tax equal to 8% of the subtotal and total equal to
\* subtotal + shippingCost + tax; and no step changes the subtotal, the
\* shipping cost, the tax or the total of a stored order.
C8_OrderTotals ==
    /\ [](\A i \in 1..Len(orders) :
            /\ orders[i].subtotal = AmountUpTo(orders[i].items, Len(orders[i].items))
            /\ 100 * orders[i].tax = 8 * orders[i].subtotal
            /\ orders[i].total =
                  orders[i].subtotal + orders[i].shippingCost + orders[i].tax)
    /\ [][\A i \in 1..Len(orders) :
             /\ orders'[i].subtotal = orders[i].subtotal
             /\ orders'[i].shippingCost = orders[i].shippingCost
             /\ orders'[i].tax = orders[i].tax
             /\ orders'[i].total = orders[i].total]_vars

\* C8 witness: an order of two lines that pays for shipping has been paid
\* and then moved on by a status request.
C8_Witness ==
    /\ Len(orders) = 1
    /\ Len(orders[1].items) = 2
    /\ orders[1].shippingCost = FlatShipping
    /\ orders[1].paymentStatus = "paid"
    /\ orders[1].orderStatus = "processing"

PricesCurrent(u) ==
    \A i \in 1..Len(carts[u].items) :
        carts[u].items[i].price = products[carts[u].items[i].product].price

C11_TimestampsSet ==
    \A i \in 1..Len(orders) :
        /\ orders[i].orderStatus \in {"shipped", "delivered"} => orders[i].shippedAt
        /\ orders[i].orderStatus = "delivered" => orders[i].deliveredAt

\* C11 witness: a status request has just delivered an order.
C11_Witness ==
    /\ resp.op = "order.status" /\ resp.code = 200 /\ resp.b = "delivered"
    /\ \E i \in 1..Len(orders) :
          /\ orders[i].orderStatus = "delivered"
          /\ orders[i].shippedAt /\ orders[i].deliveredAt


\* Two checkouts in flight for the same product that read the same stock s
\* and together take more than s.
Oversell(u, v) ==
    /\ u # v
    /\ InFlight(co[u]) /\ InFlight(co[v])
    /\ co[u].cart.items[1].product = co[v].cart.items[1].product
    /\ co[u].docs[1].stock = co[v].docs[1].stock
    /\ co[u].cart.items[1].quantity <= co[u].docs[1].stock
    /\ co[v].cart.items[1].quantity <= co[v].docs[1].stock
    /\ co[u].cart.items[1].quantity + co[v].cart.items[1].quantity
          > co[u].docs[1].stock

\* C12: nothing stands in the way of an oversell.  A checkout whose lines
\* passed the stock check and whose payment succeeded never fails in a
\* decrement, whatever other checkouts have stored since: each decrement
\* stores the stock the checkout read less the line's quantity, and the
\* checkout ends with its order stored as paid.
C12_PaidCheckoutCompletes ==
    [][\A u \in Users :
          /\ (co[u].pc = "reduce" /\ CheckoutStep(u)) =>
                LET i == co[u].idx
                    item == co[u].cart.items[i]
                IN /\ co'[u].pc \in {"reduce", "clear"}
                   /\ products'[item.product].stock =
                         co[u].docs[i].stock - item.quantity
          /\ (co[u].pc = "finish" /\ co[u].paid /\ CheckoutStep(u)) =>
                /\ orders'[co[u].oid].paymentStatus = "paid"
                /\ orders'[co[u].oid].orderStatus = "confirmed"]_vars

\* C12 witness: both users' checkouts were paid and have stored their
\* decrements, and the two quantities exceed the stock both had read.
C12_Witness ==
    /\ Oversell("u1", "u2")
    /\ co["u1"].pc = "finish" /\ co["u1"].paid
    /\ co["u2"].pc = "finish" /\ co["u2"].paid
    /\ Len(orders) = 2

\* C13: the orderNumber of a stored order is set and never changes, and no
\* two stored orders have the same orderNumber.
C13_OrderNumberUnique ==
    /\ [](\A i \in 1..Len(orders) :
            /\ orders[i].orderNumber # NoNumber
            /\ \A j \in 1..Len(orders) :
                  orders[i].orderNumber = orders[j].orderNumber => i = j)
    /\ [][\A i \in 1..Len(orders) :
             orders'[i].orderNumber = orders[i].orderNumber]_vars

\* C13 witness: two checkouts counted the same number of orders, and both
\* orders are stored, the second one saved again with its payment result.
C13_Witness ==
    /\ Len(orders) = 2
    /\ orders[1].orderNumber.seq = orders[2].orderNumber.seq
    /\ orders[2].paymentStatus # "pending"


\* C14: no step changes the lines (product, quantity, price, name) or the
\* totals of a stored order; in particular no product update or soft delete.
C14_OrderLinesFrozen ==
    [][\A i \in 1..Len(orders) :
          /\ orders'[i].items = orders[i].items
          /\ orders'[i].subtotal = orders[i].subtotal
          /\ orders'[i].shippingCost = orders[i].shippingCost
          /\ orders'[i].tax = orders[i].tax
          /\ orders'[i].total = orders[i].total]_vars

\* C14 witness: the product of a stored order's line has since been given
\* another price and another name, and has just been soft-deleted.
C14_Witness ==
    /\ resp.op = "product.delete" /\ resp.code = 200
    /\ Len(orders) = 1
    /\ LET line == orders[1].items[1]
           product == products[line.product]
       IN /\ ~product.isActive
          /\ line.price # product.price
          /\ line.name # product.name
          /\ orders[1].subtotal = line.price * line.quantity


\* C15: the order a checkout stores has, line by line, the product, the
\* quantity and the price of the cart it loaded, and its subtotal is that
\* cart's totalPrice.
C15_OrderFromCartSnapshot ==
    [][\A u \in Users :
          (co[u].pc = "create" /\ Len(orders') = Len(orders) + 1) =>
              LET order == orders'[Len(orders')]
                  cart == co[u].cart
              IN /\ Len(order.items) = Len(cart.items)
                 /\ \A i \in 1..Len(cart.items) :
                       /\ order.items[i].product = cart.items[i].product
                       /\ order.items[i].quantity = cart.items[i].quantity
                       /\ order.items[i].price = cart.items[i].price
                 /\ order.subtotal = cart.totalPrice]_vars


\* C16: a POST /api/cart/add that succeeds either adds the quantity to the
\* line the cart has for the product, keeping that line's price and the
\* number of lines, or, when the cart has no such line, appends one line with
\* the quantity and the product's current price; the other lines stay.
C16_AddMergesOrAppends ==
    [][\A u \in Users, p \in Products, q \in 1..MaxQty :
          (AddToCart(u, p, q) /\ resp'.code = 200) =>
              LET old == LinesOf(carts[u])
                  new == carts'[u].items
              IN IF \E k \in 1..Len(old) : old[k].product = p
                 THEN /\ Len(new) = Len(old)
                      /\ \A k \in 1..Len(old) :
                            new[k] = IF old[k].product = p
                                     THEN [product |-> p,
                                           quantity |-> old[k].quantity + q,
                                           price |-> old[k].price]
                                     ELSE old[k]
                 ELSE new = old \o <<[product |-> p, quantity |-> q,
                                      price |-> products[p].price]>>]_vars

\* C16 witness: an add has just merged into the first of two lines, whose
\* stored price is not the product's current price.
C16_Witness ==
    /\ resp.op = "cart.add" /\ resp.code = 200
    /\ Len(carts["u1"].items) = 2
    /\ carts["u1"].items[1].product = resp.a
    /\ carts["u1"].items[1].quantity = 2
    /\ carts["u1"].items[1].price # products[resp.a].price


\* C17 as claimed: for every cart, product id and quantity q <= 0, a call of
\* updateItemQuantity leaves the cart removeItem leaves and has removeItem's
\* outcome, whether or not the product exists.
C17_UpdateZeroIsRemove ==
    [][\A u \in Users, p \in Products, q \in CallQuantities :
          (q <= 0 /\ CallUpdateItemQuantity(u, p, q)) =>
              /\ carts'[u] = removeItem(carts[u], p).doc
              /\ resp'.message = removeItem(carts[u], p).error]_vars

\* C17: for every cart, product and quantity q <= 0, a call of
\* updateItemQuantity for a product that exists leaves the cart removeItem
\* leaves and resolves as removeItem does, whether or not the cart has the
\* line and whatever the product's stock and active flag; for a product that
\* does not exist it throws "Product not found" and leaves the cart as it was.
C17_UpdateZeroIsRemoveExisting ==
    [][\A u \in Users, p \in Products, q \in CallQuantities :
          (q <= 0 /\ CallUpdateItemQuantity(u, p, q)) =>
              IF products[p] # NoDoc
              THEN /\ carts'[u] = removeItem(carts[u], p).doc
                   /\ resp'.message = removeItem(carts[u], p).error
              ELSE /\ carts' = carts
                   /\ resp'.message = "Product not found"]_vars

\* C17 witness: updateItemQuantity with a quantity <= 0 has just resolved for
\* a product that is inactive and out of stock; its line is gone and the
\* cart's other line is still there.
C17_Witness ==
    /\ resp.op = "updateItemQuantity" /\ resp.b = "remove" /\ resp.message = ""
    /\ ~products[resp.a].isActive
    /\ products[resp.a].stock = 0
    /\ Len(carts["u1"].items) = 1
    /\ carts["u1"].items[1].product # resp.a

\* C18: a PATCH /api/cart/update/:productId that succeeds was sent for an
\* active product with stock of at least the quantity; it sets the quantity
\* of the cart's line for the product to that quantity and its price to the
\* product's current price, and leaves the other lines as they were.
C18_UpdateSetsQuantityAndPrice ==
    [][\A u \in Users, p \in Products, q \in 1..MaxQty :
          (UpdateCartItem(u, p, q) /\ resp'.code = 200) =>
              LET old == carts[u].items
                  new == carts'[u].items
              IN /\ products[p] # NoDoc
                 /\ products[p].isActive
                 /\ q <= products[p].stock
                 /\ \E k \in 1..Len(old) : old[k].product = p
                 /\ Len(new) = Len(old)
                 /\ \A k \in 1..Len(old) :
                       new[k] = IF old[k].product = p
                                THEN [product |-> p, quantity |-> q,
                                      price |-> products[p].price]
                                ELSE old[k]]_vars

\* C18 witness: an update has just set the second of two lines to quantity 2
\* at the product's current price, and the first line keeps a price that is
\* no longer its product's.
C18_Witness ==
    /\ resp.op = "cart.update" /\ resp.code = 200
    /\ Len(carts["u1"].items) = 2
    /\ carts["u1"].items[2].product = resp.a
    /\ carts["u1"].items[2].quantity = 2
    /\ carts["u1"].items[2].price = products[resp.a].price
    /\ carts["u1"].items[1].price # products[carts["u1"].items[1].product].price

\* C19: a PATCH /api/cart/update/:productId with a quantity the product can
\* supply, for a product that exists and has no line in the caller's cart,
\* is answered 404 and leaves the carts as they were.
C19_MissingLineNotFound ==
    [][\A u \in Users, p \in Products, q \in 1..MaxQty :
          ( /\ UpdateCartItem(u, p, q)
            /\ products[p] # NoDoc
            /\ isInStock(products[p], q)
            /\ LineQuantity(carts[u], p) = 0 )
          => /\ resp'.code = 404
             /\ carts' = carts]_vars

\* C20: a call of addItem or updateItemQuantity that throws, directly or
\* within POST /api/cart/add or PATCH /api/cart/update/:productId, leaves
\* every stored cart as it was.
C20_FailedMutationNoChange ==
    [][( \/ resp'.op \in {"addItem", "updateItemQuantity"} /\ resp'.message # ""
         \/ resp'.op \in {"cart.add", "cart.update"} /\ resp'.code # 200 )
       => carts' = carts]_vars

\* C20 witness: addItem has just thrown at its second stock check: the cart
\* has the product's line at the full stock, and still has it.
C20_Witness ==
    /\ resp.op = "addItem" /\ resp.message = "Insufficient stock"
    /\ products[resp.a].isActive
    /\ products[resp.a].stock = MaxQty
    /\ LineQuantity(carts["u1"], resp.a) = products[resp.a].stock

\* C21: a cart request (get, add, update, remove, clear) by a user who has
\* no cart is not answered "Cart not found", and when it succeeds the user
\* has a cart.
C21_CartCreatedOnAccess ==
    [][\A u \in Users, p \in Products, q \in 1..MaxQty :
          ( /\ carts[u] = NoDoc
            /\ \/ GetCart(u)
               \/ AddToCart(u, p, q)
               \/ UpdateCartItem(u, p, q)
               \/ RemoveFromCart(u, p)
               \/ ClearCart(u) )
          => /\ resp'.message # "Cart not found"
             /\ resp'.code = 200 => carts'[u] # NoDoc]_vars

\* C23: a DELETE /api/products/:id for a product that exists, sent by an
\* admin or by the product's creator, sets isActive to FALSE and changes
\* nothing else: afterwards GET /api/products/:id still returns the product,
\* with isAvailable FALSE and the stock and price it had, and the listing no
\* longer has it; sent by anyone else it is answered 403 and leaves the
\* products as they were.
C23_SoftDelete ==
    [][\A u \in Users, p \in Products :
          (DeleteProduct(u, p) /\ products[p] # NoDoc) =>
              IF role[u] = "admin" \/ products[p].createdBy = u
              THEN /\ resp'.code = 200
                   /\ products' = [products EXCEPT ![p].isActive = FALSE]
                   /\ GetProductById(p)'.code = 200
                   /\ ~GetProductById(p)'.product.isAvailable
                   /\ GetProductById(p)'.product.stock = products[p].stock
                   /\ GetProductById(p)'.product.price = products[p].price
                   /\ p \notin ListProducts'
                   /\ UNCHANGED <<carts, orders>>
              ELSE /\ resp'.code = 403
                   /\ UNCHANGED <<products, carts, orders>>]_vars

\* C23 witness: a product in stock, listed until then and created by the
\* customer, has just been soft-deleted while the customer's cart has a
\* line for it.
C23_Witness ==
    /\ resp.op = "product.delete" /\ resp.code = 200
    /\ products[resp.a].createdBy = "u1"
    /\ products[resp.a].stock > 0
    /\ ~products[resp.a].isActive
    /\ resp.a \notin ListProducts
    /\ LineQuantity(carts["u1"], resp.a) > 0

\* C25: a status or cancel request, through any of the three endpoints, by a
\* caller whose role is not admin is answered 403 and leaves the stored
\* orders as they were, whoever owns the order and whatever its status.
C25_StatusChangeAdminOnly ==
    [][\A u \in Users, i \in OrderIds, s \in RequestedStatuses :
          ( /\ role[u] # "admin"
            /\ \/ UserUpdateStatus(u, i, s)
               \/ AdminUpdateStatus(u, i, s)
               \/ AdminCancel(u, i) )
          => /\ resp'.code = 403
             /\ orders' = orders]_vars

\* C25 witness: the order-status endpoint has just refused a request while
\* the customer's own order is confirmed, a status with two ways on.
C25_Witness ==
    /\ resp.op = "order.status" /\ resp.code = 403
    /\ Len(orders) = 1
    /\ orders[1].user = "u1" /\ role["u1"] # "admin"
    /\ orders[1].orderStatus = "confirmed"

\* C26: for an admin, an existing order and any requested status, PATCH
\* /api/admin/orders/:id/status accepts exactly when Order.updateStatus
\* accepts, and when it accepts it stores the order updateStatus stores (same
\* orderStatus, shippedAt and deliveredAt).
C26_AdminReusesStateMachine ==
    [][\A u \in Users, i \in OrderIds, s \in RequestedStatuses :
          ( /\ role[u] = "admin"
            /\ OrderExists(i)
            /\ AdminUpdateStatus(u, i, s) )
          => LET r == updateStatus(orders[i], s)
             IN /\ resp'.code = 200 <=> r.error = ""
                /\ r.error = "" =>
                      /\ orders'[i].orderStatus = r.doc.orderStatus
                      /\ orders'[i].shippedAt = r.doc.shippedAt
                      /\ orders'[i].deliveredAt = r.doc.deliveredAt]_vars

\* C29: in every state, a stored order whose orderStatus is processing,
\* shipped or delivered has paymentStatus paid.
C29_FulfilmentOnlyWhenPaid ==
    \A i \in 1..Len(orders) :
        orders[i].orderStatus \in {"processing", "shipped", "delivered"}
            => orders[i].paymentStatus = "paid"

\* C30: in every state reached by cart method calls that do not interleave,
\* whatever the quantities passed, no stored cart has two lines for the same
\* product and every line of a stored cart has a quantity of at least 1.
C30_LinesDistinctAndPositive ==
    \A u \in Users :
        carts[u] # NoDoc =>
            \A i \in 1..Len(carts[u].items) :
                /\ carts[u].items[i].quantity >= 1
                /\ \A j \in 1..Len(carts[u].items) :
                      carts[u].items[i].product = carts[u].items[j].product => i = j

\* C30 witness: addItem, called with a quantity below 1 for a product the
\* cart has no line for, has just failed validation, and the cart keeps its
\* one line.
C30_Witness ==
    /\ resp.op = "addItem" /\ resp.message = "Cart validation failed"
    /\ Len(carts["u1"].items) = 1
    /\ carts["u1"].items[1].product # resp.a

\* C27: when a checkout whose payment succeeded ends, in whatever way, its
\* order is stored with paymentStatus paid and orderStatus confirmed.
C27_PaidOrderPersisted ==
    [][\A u \in Users :
          (Paid(co[u]) /\ ~InFlight(co'[u])) =>
              /\ orders'[co[u].oid].paymentStatus = "paid"
              /\ orders'[co[u].oid].orderStatus = "confirmed"]_vars

\* C28: whatever the interleaving of the cart requests of one user, every
\* save leaves the stored cart with totalItems equal to the sum of its line
\* quantities and totalPrice equal to the sum of quantity x price.
C28_TotalsAfterInterleaving ==
    [][\A u \in Users :
          (carts'[u] # carts[u]) =>
              /\ carts'[u].totalItems = SumQuantity(carts'[u].items)
              /\ carts'[u].totalPrice = SumPrice(carts'[u].items)]_vars

\* C22: in every state each user has at most one stored cart, the one the
\* cart queries find; and no step removes a cart document.
C22_OneCartPerUser ==
    /\ [](\A u \in Users :
            /\ cartCount[u] <= 1
            /\ cartCount[u] = 1 <=> carts[u] # NoDoc)
    /\ [][\A u \in Users :
             /\ cartCount'[u] >= cartCount[u]
             /\ carts[u] # NoDoc => carts'[u] # NoDoc]_vars

\* C22 witness: two requests of the shopper both found no cart; one has
\* inserted it, with a line, and the insert of the other, a GET, has just
\* been refused.
C22_Witness ==
    /\ resp.op = "cart.get" /\ resp.code = 500
    /\ cartCount["u1"] = 1
    /\ carts["u1"] # NoDoc
    /\ Len(carts["u1"].items) = 1

=============================================================================
